---- MODULE Spec2Model ----
(***************************************************************************)
(* Model of the notification matcher of obsidian-notify                    *)
(* (NotificationMatcher, src/src/types.ts lines 186-369).                  *)
(*                                                                         *)
(* A moment is modelled by the number of its calendar day (days since      *)
(* 1970-01-01): every moment the matcher builds is a local midnight, and   *)
(* the matcher only compares and subtracts them by day.  A date string     *)
(* "YYYY-MM-DD" is modelled by the record of its three fields.             *)
(***************************************************************************)
EXTENDS Integers, Sequences, FiniteSets, TLC

VARIABLES tasks, referenceDate, settings, active, pc

\* the state of the plugin around the matcher (src/src/main.ts):
\* settings.acknowledgements
VARIABLES acknowledgements

\* the notify blocks (src/src/renderer.ts): the registered renderers, and
\* for each renderer its lastRenderHash, the content of its container and
\* whether its last refresh rendered
VARIABLES activeRenderers, lastRenderHash, rendered, rerendered

\* the block-ID manager (src/src/blockid-manager.ts): the lines of the vault
\* files, the task objects the parser has made, the queue of task objects,
\* the processQueue runs in progress, and the task objects that a run has
\* handed to addBlockIdsToFile
VARIABLES vaultLines, taskObjects, queue, runs, handed

\* the cache (src/src/cache.ts): the file objects of the vault (their path,
\* and whether they are deleted),
\* the Map of the cache, and the updateFile calls in progress
VARIABLES vaultFiles, cache, calls

\* the event manager (src/src/events.ts): debounceTimers, the timeouts set
\* on the window, and, for the properties, the burst of change events of
\* each path and the paths removed by a delete or a rename; and the
\* position of initializePlugin (src/src/main.ts), which creates the cache,
\* scans the vault and then registers the event listeners
VARIABLES debounceTimers, windowTimers, burst, removed, initialize

matcherVars == <<tasks, referenceDate, settings, active, pc>>
cacheVars == <<vaultFiles, cache, calls>>
eventVars == <<debounceTimers, windowTimers, burst, removed, initialize>>
rendererVars == <<activeRenderers, lastRenderHash, rendered, rerendered>>
blockIdVars == <<vaultLines, taskObjects, queue, runs, handed>>
pluginVars == <<acknowledgements, rendererVars, blockIdVars, cacheVars, eventVars>>

vars == <<matcherVars, pluginVars>>

-----------------------------------------------------------------------------
(* Calendar arithmetic of the date library (moment)                        *)

Min(a, b) == IF a <= b THEN a ELSE b

IsLeapYear(y) == (y % 4 = 0 /\ y % 100 # 0) \/ y % 400 = 0

\* month is 1..12
DaysInMonth(y, m) ==
    IF m = 2 THEN (IF IsLeapYear(y) THEN 29 ELSE 28)
    ELSE IF m \in {4, 6, 9, 11} THEN 30 ELSE 31

\* day number of the calendar date y-m-d (days since 1970-01-01)
DaysFromCivil(y, m, d) ==
    LET yy  == IF m <= 2 THEN y - 1 ELSE y
        era == yy \div 400
        yoe == yy - era * 400
        mp  == IF m > 2 THEN m - 3 ELSE m + 9
        doy == (153 * mp + 2) \div 5 + d - 1
        doe == yoe * 365 + yoe \div 4 - yoe \div 100 + doy
    IN  era * 146097 + doe - 719468

\* calendar date of a day number
CivilFromDays(z0) ==
    LET z   == z0 + 719468
        era == z \div 146097
        doe == z - era * 146097
        yoe == (doe - doe \div 1460 + doe \div 36524 - doe \div 146096) \div 365
        doy == doe - (365 * yoe + yoe \div 4 - yoe \div 100)
        mp  == (5 * doy + 2) \div 153
        d   == doy - (153 * mp + 2) \div 5 + 1
        m   == IF mp < 10 THEN mp + 3 ELSE mp - 9
        y   == yoe + era * 400 + (IF m <= 2 THEN 1 ELSE 0)
    IN  [year |-> y, month |-> m, date |-> d]

\* moment("YYYY-MM-DD"): parse a date string
Moment(s) == DaysFromCivil(s.year, s.month, s.date)

\* getters
YearOf(mom)  == CivilFromDays(mom).year
MonthOf(mom) == CivilFromDays(mom).month
\* mutant: the day of the week (.day()) taken for the day of the month
DateOf_DayOfWeek(mom) == (mom + 4) % 7
DateOf(mom)  == CivilFromDays(mom).date
\* day of week, 0 = Sunday (1970-01-01 was a Thursday)
\* mutant: the day of the month (.date()) taken for the day of the week
DayOf_DayOfMonth(mom) == CivilFromDays(mom).date
DayOf(mom)   == (mom + 4) % 7

\* a.diff(b, "days")
DiffDays(a, b) == a - b

\* mom.year(y): Feb 29 is clamped to the last day of February of y
SetYear(mom, y) ==
    LET c == CivilFromDays(mom)
    IN  IF IsLeapYear(c.year) /\ c.month = 2 /\ c.date = 29
        THEN DaysFromCivil(y, 2, DaysInMonth(y, 2))
        ELSE DaysFromCivil(y, c.month, c.date)

\* mom.month(m): the day of month is clamped to the length of month m in
\* the moment's current year
SetMonth(mom, m) ==
    LET c == CivilFromDays(mom)
    IN  DaysFromCivil(c.year, m, Min(c.date, DaysInMonth(c.year, m)))

\* mom.add(n, "month") for any integer n: the month overflows into the
\* year and the day of month is clamped to the length of the target month
AddMonths(mom, n) ==
    LET c   == CivilFromDays(mom)
        tot == c.year * 12 + (c.month - 1) + n
        y   == tot \div 12
        m   == (tot % 12) + 1
    IN  DaysFromCivil(y, m, Min(c.date, DaysInMonth(y, m)))

\* mom.add(n, unit)
Add(mom, n, unit) ==
    CASE unit = "day"   -> mom + n
      [] unit = "week"  -> mom + 7 * n
      [] unit = "month" -> AddMonths(mom, n)
      [] unit = "year"  -> AddMonths(mom, 12 * n)

\* mom.subtract(n, unit)
Subtract(mom, n, unit) == Add(mom, 0 - n, unit)

\* mom.day(dow): move to weekday dow of the moment's (Sunday-based) week
SetDay(mom, dow) == mom + (dow - DayOf(mom))

-----------------------------------------------------------------------------
(* NotificationMatcher                                                     *)

\* repeatInterval null
NoRepeat == "null"
\* reminderOffset null
NoOffset == [number |-> 0, unit |-> "null"]

\* mutant: the last day of the lookback window is left out
eventDateMatches_StrictWindow(eventDate, today, repeatInterval) ==
    CASE repeatInterval = NoRepeat ->
            LET daysDiff == DiffDays(today, eventDate)
            IN  daysDiff >= 0 /\ daysDiff < settings.lookbackDays
      [] repeatInterval = "year" ->
            LET thisYearEvent == SetYear(eventDate, YearOf(today))
                yearDiff == DiffDays(today, thisYearEvent)
            IN  yearDiff >= 0 /\ yearDiff <= settings.lookbackDays
      [] repeatInterval = "month" -> DateOf(eventDate) = DateOf(today)
      [] repeatInterval = "week" -> DayOf(eventDate) = DayOf(today)
      [] repeatInterval = "day" -> TRUE
      [] OTHER -> FALSE

\* mutant: a daily event starts on its event date
eventDateMatches_DailyFromEventDate(eventDate, today, repeatInterval) ==
    CASE repeatInterval = NoRepeat ->
            LET daysDiff == DiffDays(today, eventDate)
            IN  daysDiff >= 0 /\ daysDiff <= settings.lookbackDays
      [] repeatInterval = "year" ->
            LET thisYearEvent == SetYear(eventDate, YearOf(today))
                yearDiff == DiffDays(today, thisYearEvent)
            IN  yearDiff >= 0 /\ yearDiff <= settings.lookbackDays
      [] repeatInterval = "month" -> DateOf(eventDate) = DateOf(today)
      [] repeatInterval = "week" -> DayOf(eventDate) = DayOf(today)
      [] repeatInterval = "day" -> DiffDays(today, eventDate) >= 0
      [] OTHER -> FALSE

eventDateMatches(eventDate, today, repeatInterval) ==
    CASE repeatInterval = NoRepeat ->
            LET daysDiff == DiffDays(today, eventDate)
            IN  daysDiff >= 0 /\ daysDiff <= settings.lookbackDays
      [] repeatInterval = "year" ->
            LET thisYearEvent == SetYear(eventDate, YearOf(today))
                yearDiff == DiffDays(today, thisYearEvent)
            IN  yearDiff >= 0 /\ yearDiff <= settings.lookbackDays
      [] repeatInterval = "month" -> DateOf(eventDate) = DateOf(today)
      [] repeatInterval = "week" -> DayOf(eventDate) = DayOf(today)
      [] repeatInterval = "day" -> TRUE
      [] OTHER -> FALSE

\* the occurrence of the event from which a reminder offset is subtracted
\* mutant: a yearly event that has passed this year is not moved to the
\* next year
targetEvent_NoNextYear(eventDate, repeatInterval, today) ==
    CASE repeatInterval = "year" -> SetYear(eventDate, YearOf(today))
      [] repeatInterval = "month" ->
            LET t == SetYear(SetMonth(eventDate, MonthOf(today)), YearOf(today))
            IN  IF t < today THEN Add(t, 1, "month") ELSE t
      [] repeatInterval = "week" ->
            LET dayOfWeek == DayOf(eventDate)
                todayDayOfWeek == DayOf(today)
                t == SetDay(today, dayOfWeek)
            IN  IF dayOfWeek <= todayDayOfWeek THEN Add(t, 1, "week") ELSE t
      [] repeatInterval = "day" -> today
      [] OTHER -> eventDate

\* mutant: a weekly event on today's weekday targets today
targetEvent_WeekNotStrict(eventDate, repeatInterval, today) ==
    CASE repeatInterval = "year" ->
            LET t == SetYear(eventDate, YearOf(today))
            IN  IF t < today THEN Add(t, 1, "year") ELSE t
      [] repeatInterval = "month" ->
            LET t == SetYear(SetMonth(eventDate, MonthOf(today)), YearOf(today))
            IN  IF t < today THEN Add(t, 1, "month") ELSE t
      [] repeatInterval = "week" ->
            LET dayOfWeek == DayOf(eventDate)
                todayDayOfWeek == DayOf(today)
                t == SetDay(today, dayOfWeek)
            IN  IF dayOfWeek < todayDayOfWeek THEN Add(t, 1, "week") ELSE t
      [] repeatInterval = "day" -> today
      [] OTHER -> eventDate

\* mutant: a daily event targets the occurrence of tomorrow
targetEvent_DailyTomorrow(eventDate, repeatInterval, today) ==
    CASE repeatInterval = "year" ->
            LET t == SetYear(eventDate, YearOf(today))
            IN  IF t < today THEN Add(t, 1, "year") ELSE t
      [] repeatInterval = "month" ->
            LET t == SetYear(SetMonth(eventDate, MonthOf(today)), YearOf(today))
            IN  IF t < today THEN Add(t, 1, "month") ELSE t
      [] repeatInterval = "week" ->
            LET dayOfWeek == DayOf(eventDate)
                todayDayOfWeek == DayOf(today)
                t == SetDay(today, dayOfWeek)
            IN  IF dayOfWeek <= todayDayOfWeek THEN Add(t, 1, "week") ELSE t
      [] repeatInterval = "day" -> Add(today, 1, "day")
      [] OTHER -> eventDate

targetEvent(eventDate, repeatInterval, today) ==
    CASE repeatInterval = "year" ->
            LET t == SetYear(eventDate, YearOf(today))
            IN  IF t < today THEN Add(t, 1, "year") ELSE t
      [] repeatInterval = "month" ->
            LET t == SetYear(SetMonth(eventDate, MonthOf(today)), YearOf(today))
            IN  IF t < today THEN Add(t, 1, "month") ELSE t
      [] repeatInterval = "week" ->
            LET dayOfWeek == DayOf(eventDate)
                todayDayOfWeek == DayOf(today)
                t == SetDay(today, dayOfWeek)
            IN  IF dayOfWeek <= todayDayOfWeek THEN Add(t, 1, "week") ELSE t
      [] repeatInterval = "day" -> today
      [] OTHER -> eventDate

\* mutant: a month is subtracted as 30 days and a year as 365 days
calculateReminderDate_FixedDayCounts(eventDate, offset, repeatInterval, today) ==
    targetEvent(eventDate, repeatInterval, today)
        - offset.number * (CASE offset.unit = "day" -> 1
                             [] offset.unit = "week" -> 7
                             [] offset.unit = "month" -> 30
                             [] offset.unit = "year" -> 365)

calculateReminderDate(eventDate, offset, repeatInterval, today) ==
    Subtract(targetEvent(eventDate, repeatInterval, today),
             offset.number, offset.unit)

Abs(n) == IF n < 0 THEN 0 - n ELSE n

\* mutant: the plural is used for one day too
getEventDateContext_AlwaysPlural(daysDiff, repeatInterval) ==
    IF daysDiff = 0 THEN "today"
    ELSE IF daysDiff > 0 THEN ToString(daysDiff) \o " days ago"
    ELSE "in " \o ToString(Abs(daysDiff)) \o " days"

getEventDateContext(daysDiff, repeatInterval) ==
    IF daysDiff = 0 THEN "today"
    ELSE IF daysDiff > 0
    THEN ToString(daysDiff) \o " day" \o (IF daysDiff = 1 THEN "" ELSE "s")
            \o " ago"
    ELSE "in " \o ToString(Abs(daysDiff)) \o " day"
            \o (IF Abs(daysDiff) = 1 THEN "" ELSE "s")

\* mutant: the unit is written in the plural for every number
ReminderContext_AlwaysPlural(offset) ==
    ToString(offset.number) \o " " \o offset.unit \o "s" \o " early"

\* the text between the asterisks of a reminder's displayText
ReminderContext(offset) ==
    LET unit == IF offset.number = 1 THEN offset.unit ELSE offset.unit \o "s"
    IN  ToString(offset.number) \o " " \o unit \o " early"

\* displayText is `${title} 📆 ${eventDate} — *${context}*`: the record of
\* the three interpolated parts
DisplayText(task, context) ==
    [title |-> task.title, eventDate |-> task.eventDate, context |-> context]

\* mutant: the day difference of a yearly event is taken from the original
\* event date
EventDateEntries_NoYearAnchor(task, today) ==
    LET eventDate == Moment(task.eventDate)
    IN  IF eventDateMatches(eventDate, today, task.repeatInterval)
        THEN LET daysDiff == DiffDays(today, eventDate)
                 context == getEventDateContext(daysDiff, task.repeatInterval)
             IN  << [task |-> task, reminderOffset |-> NoOffset,
                     displayText |-> DisplayText(task, context)] >>
        ELSE << >>

\* Check 1 of the loop body: the entries pushed for the event date
EventDateEntries(task, today) ==
    LET eventDate == Moment(task.eventDate)
    IN  IF eventDateMatches(eventDate, today, task.repeatInterval)
        THEN LET effectiveEventDate ==
                     IF task.repeatInterval = "year"
                     THEN SetYear(eventDate, YearOf(today))
                     ELSE eventDate
                 daysDiff == DiffDays(today, effectiveEventDate)
                 context == getEventDateContext(daysDiff, task.repeatInterval)
             IN  << [task |-> task, reminderOffset |-> NoOffset,
                     displayText |-> DisplayText(task, context)] >>
        ELSE << >>

\* mutant: an offset of number 0 is skipped
RECURSIVE ReminderEntries_IgnoresZero(_, _, _)
ReminderEntries_IgnoresZero(task, today, i) ==
    IF i > Len(task.reminderOffsets) THEN << >>
    ELSE LET offset == task.reminderOffsets[i]
             reminderDate == calculateReminderDate(Moment(task.eventDate),
                                 offset, task.repeatInterval, today)
         IN  (IF offset.number # 0 /\ reminderDate = today
              THEN << [task |-> task, reminderOffset |-> offset,
                       displayText |->
                           DisplayText(task, ReminderContext(offset))] >>
              ELSE << >>)
             \o ReminderEntries_IgnoresZero(task, today, i + 1)

\* Check 2 of the loop body: the entries pushed for offsets[i..]
RECURSIVE ReminderEntries(_, _, _)
ReminderEntries(task, today, i) ==
    IF i > Len(task.reminderOffsets) THEN << >>
    ELSE LET offset == task.reminderOffsets[i]
             reminderDate == calculateReminderDate(Moment(task.eventDate),
                                 offset, task.repeatInterval, today)
         IN  (IF reminderDate = today
              THEN << [task |-> task, reminderOffset |-> offset,
                       displayText |->
                           DisplayText(task, ReminderContext(offset))] >>
              ELSE << >>)
             \o ReminderEntries(task, today, i + 1)

\* mutant: the entries of each task are put in front of the output
RECURSIVE MatchFrom_Reversed(_, _, _)
MatchFrom_Reversed(ts, today, i) ==
    IF i > Len(ts) THEN << >>
    ELSE MatchFrom_Reversed(ts, today, i + 1)
         \o EventDateEntries(ts[i], today)
         \o ReminderEntries(ts[i], today, 1)

\* mutant: Check 1 is run again after the reminder loop
RECURSIVE MatchFrom_RepeatsCheck1(_, _, _)
MatchFrom_RepeatsCheck1(ts, today, i) ==
    IF i > Len(ts) THEN << >>
    ELSE EventDateEntries(ts[i], today)
         \o ReminderEntries(ts[i], today, 1)
         \o EventDateEntries(ts[i], today)
         \o MatchFrom_RepeatsCheck1(ts, today, i + 1)

\* mutant: the reminders of an event whose event date matched are skipped
RECURSIVE MatchFrom_SkipsRemindersWhenMatched(_, _, _)
MatchFrom_SkipsRemindersWhenMatched(ts, today, i) ==
    IF i > Len(ts) THEN << >>
    ELSE EventDateEntries(ts[i], today)
         \o (IF EventDateEntries(ts[i], today) = << >>
             THEN ReminderEntries(ts[i], today, 1) ELSE << >>)
         \o MatchFrom_SkipsRemindersWhenMatched(ts, today, i + 1)

\* the loop over tasks[i..]
RECURSIVE MatchFrom(_, _, _)
MatchFrom(ts, today, i) ==
    IF i > Len(ts) THEN << >>
    ELSE EventDateEntries(ts[i], today)
         \o ReminderEntries(ts[i], today, 1)
         \o MatchFrom(ts, today, i + 1)

getActiveNotifications(ts, refDate) == MatchFrom(ts, Moment(refDate), 1)

-----------------------------------------------------------------------------
(* Inputs                                                                  *)

\* lookbackDays ranges over 0..MaxLookback
MaxLookback == 3
\* reference dates: NumRefDates consecutive days from FirstRefDate
NumRefDates == 480
FirstRefDate == DaysFromCivil(2023, 12, 1)
\* the number of a reminder offset ranges over 1..MaxOffsetNumber
MaxOffsetNumber == 2
\* a task of the runs with several reminders has at most MaxOffsets of them
MaxOffsets == 2

RepeatIntervals == {NoRepeat, "day", "week", "month", "year"}
Units == {"day", "week", "month", "year"}

RefDates == {CivilFromDays(n) : n \in FirstRefDate .. FirstRefDate + NumRefDates - 1}

\* event dates: the first, middle and last days of the months around the
\* turn of the year, February and a 30-day month, in a leap year and the
\* years around it
EventDates ==
    {d \in [year : {2023, 2024, 2025}, month : {1, 2, 3, 4, 12},
            date : {1, 15, 28, 29, 30, 31}] :
        d.date <= DaysInMonth(d.year, d.month)}

\* the parser reads the offset number from one keycap digit 1-9
Offsets == [number : 1 .. MaxOffsetNumber, unit : Units]

\* the singular and the plural of every unit
SomeOffsets == [number : {1, 2}, unit : Units]

\* the reference dates and event dates of the runs with one reminder: the
\* turn of the year and the months around the leap day
NumReminderRefDates == 110
FirstReminderRefDate == DaysFromCivil(2023, 12, 15)
ReminderRefDates ==
    {CivilFromDays(n) :
        n \in FirstReminderRefDate .. FirstReminderRefDate + NumReminderRefDates - 1}
ReminderEventDates ==
    {d \in [year : {2023, 2024, 2025}, month : {1, 2, 3, 12},
            date : {1, 29, 31}] :
        d.date <= DaysInMonth(d.year, d.month)}

\* the reference dates and event dates of the runs with several reminders:
\* the days around the leap day
NumMultiRefDates == 31
FirstMultiRefDate == DaysFromCivil(2024, 1, 31)
MultiRefDates ==
    {CivilFromDays(n) :
        n \in FirstMultiRefDate .. FirstMultiRefDate + NumMultiRefDates - 1}
MultiEventDates ==
    {d \in [year : {2024, 2025}, month : {2, 3}, date : {1, 29, 31}] :
        d.date <= DaysInMonth(d.year, d.month)}

\* offsets of number 0, which the parser never reads but the matcher accepts
ZeroOffsets == [number : {0}, unit : Units]

\* DEFAULT_SETTINGS.lookbackDays
DefaultLookbackDays == 3

\* the reminderOffsets of a task: at most maxLen offsets, in any order, with
\* repetitions
OffsetSeqs(offsets, maxLen) == UNION {[1 .. n -> offsets] : n \in 0 .. maxLen}

Task(eventDate, repeatInterval, reminderOffsets) ==
    [filePath |-> "test.md", lineNumber |-> 1, blockId |-> "abc123",
     title |-> "Test Task", eventDate |-> eventDate,
     repeatInterval |-> repeatInterval, reminderOffsets |-> reminderOffsets,
     originalText |-> "task"]

\* the calls with several tasks: at most MaxTasks tasks, the task at
\* position i on line i of the file
MaxTasks == 2
NumTaskRefDates == 9
FirstTaskRefDate == DaysFromCivil(2024, 2, 22)
TaskRefDates ==
    {CivilFromDays(n) :
        n \in FirstTaskRefDate .. FirstTaskRefDate + NumTaskRefDates - 1}
TaskEventDates ==
    {[year |-> 2024, month |-> 2, date |-> 29],
     [year |-> 2024, month |-> 3, date |-> 1]}
TaskOffsetSeqs ==
    {<< >>,
     << [number |-> 1, unit |-> "day"], [number |-> 1, unit |-> "week"] >>,
     << [number |-> 1, unit |-> "week"], [number |-> 7, unit |-> "day"] >>}
TaskPool ==
    {Task(e, r, o) :
        e \in TaskEventDates, r \in RepeatIntervals, o \in TaskOffsetSeqs}
TaskSeqs(n) ==
    {[i \in 1 .. n |-> [f[i] EXCEPT !.lineNumber = i]] : f \in [1 .. n -> TaskPool]}

-----------------------------------------------------------------------------
(* State machine: one call of getActiveNotifications on drawn inputs       *)

\* the plugin as constructed, before any of its handlers has run
Renderers == {"r1", "r2"}

\* the hash of no notification: the empty string
EmptyHash == << >>

\* the container of a notify block that has not rendered yet
NotRendered == [state |-> "none", items |-> << >>]

InitRenderers ==
    /\ activeRenderers = {}
    /\ lastRenderHash = [r \in Renderers |-> EmptyHash]
    /\ rendered = [r \in Renderers |-> NotRendered]
    /\ rerendered = [r \in Renderers |-> FALSE]

Runs == {"p1", "p2"}

\* a processQueue run that is not in progress
IdleRun == [pc |-> "idle", tasksByFile |-> << >>]

\* new BlockIdManager: an empty queue; no file is looked at
InitBlockIdManager ==
    /\ vaultLines = << >>
    /\ taskObjects = << >>
    /\ queue = << >>
    /\ runs = [p \in Runs |-> IdleRun]
    /\ handed = {}

Calls == {"u1", "u2"}

\* an updateFile call that is not in progress
IdleCall == [pc |-> "idle"]

\* new NotificationCache: an empty Map
InitCache ==
    /\ vaultFiles = << >>
    /\ cache = << >>
    /\ calls = [c \in Calls |-> IdleCall]

\* initializePlugin has not run: plugin.cache is undefined
Unloaded == [pc |-> "unloaded", rest |-> << >>]

\* initializePlugin has run to its end
Registered == [pc |-> "registered", rest |-> << >>]

\* no EventManager yet
InitEventManager ==
    /\ debounceTimers = << >>
    /\ windowTimers = << >>
    /\ burst = << >>
    /\ removed = {}
    /\ initialize = Unloaded

InitPlugin ==
    /\ acknowledgements = << >>
    /\ InitRenderers
    /\ InitBlockIdManager
    /\ InitCache
    /\ InitEventManager

InitWith(eventDates, offsetSeqs, lookbacks, refDates) ==
    /\ InitPlugin
    /\ \E e \in eventDates, r \in RepeatIntervals, o \in offsetSeqs :
          tasks = << Task(e, r, o) >>
    /\ referenceDate \in refDates
    /\ \E l \in lookbacks : settings = [lookbackDays |-> l]
    /\ active = << >>
    /\ pc = "start"

\* events with no reminder or a one-day reminder, every lookback window
Init ==
    InitWith(EventDates, {<< >>, << [number |-> 1, unit |-> "day"] >>},
             0 .. MaxLookback, RefDates)

\* events with at most one reminder of any number, the default lookback
\* window
InitReminders ==
    InitWith(ReminderEventDates, OffsetSeqs(Offsets, 1), {DefaultLookbackDays},
             ReminderRefDates)

\* events with up to MaxOffsets reminders, the default lookback window
InitMultipleReminders ==
    InitWith(MultiEventDates, OffsetSeqs(SomeOffsets, MaxOffsets),
             {DefaultLookbackDays}, MultiRefDates)

\* events with at most one reminder of number 0, the default lookback window
InitZeroOffsets ==
    InitWith(ReminderEventDates, OffsetSeqs(ZeroOffsets, 1),
             {DefaultLookbackDays}, ReminderRefDates)

\* up to MaxTasks events, the default lookback window
InitTasks ==
    /\ InitPlugin
    /\ tasks \in UNION {TaskSeqs(n) : n \in 0 .. MaxTasks}
    /\ referenceDate \in TaskRefDates
    /\ settings = [lookbackDays |-> DefaultLookbackDays]
    /\ active = << >>
    /\ pc = "start"

\* mutant: the call reverses the task array in place
GetActiveNotifications_ReversesTasks ==
    /\ pc = "start"
    /\ active' = getActiveNotifications(tasks, referenceDate)
    /\ tasks' = [i \in 1 .. Len(tasks) |-> tasks[Len(tasks) + 1 - i]]
    /\ pc' = "done"
    /\ UNCHANGED <<referenceDate, settings, pluginVars>>

GetActiveNotifications ==
    /\ pc = "start"
    /\ active' = getActiveNotifications(tasks, referenceDate)
    /\ pc' = "done"
    /\ UNCHANGED <<tasks, referenceDate, settings, pluginVars>>

Next == GetActiveNotifications

Spec == Init /\ [][Next]_vars

SpecReminders == InitReminders /\ [][Next]_vars

SpecMultipleReminders == InitMultipleReminders /\ [][Next]_vars

SpecTasks == InitTasks /\ [][Next]_vars

SpecZeroOffsets == InitZeroOffsets /\ [][Next]_vars

TypeOK == pc \in {"start", "done"}

-----------------------------------------------------------------------------
(* Vocabulary of the properties                                            *)

Returned == pc = "done"

\* the event of the call, its date and the reference date as day numbers
Event == tasks[1]
EventDay == DaysFromCivil(Event.eventDate.year, Event.eventDate.month,
                          Event.eventDate.date)
RefDay == DaysFromCivil(referenceDate.year, referenceDate.month,
                        referenceDate.date)

\* the event-date entries and the reminder entries of the output
EventDateOutput == SelectSeq(active, LAMBDA n : n.reminderOffset = NoOffset)
ReminderOutput == SelectSeq(active, LAMBDA n : n.reminderOffset # NoOffset)

HasEventDateEntry ==
    \E i \in 1 .. Len(active) :
        active[i].reminderOffset = NoOffset /\ active[i].task = Event

\* "today", "1 day ago", "<n> days ago"
AgoText(diff) ==
    IF diff = 0 THEN "today"
    ELSE IF diff = 1 THEN "1 day ago"
    ELSE ToString(diff) \o " days ago"

\* the date string s moved into year y (Feb 29 falls on the last day of
\* February)
AnchorInYear(s, y) == DaysFromCivil(y, s.month, Min(s.date, DaysInMonth(y, s.month)))

-----------------------------------------------------------------------------
(* C1 *)

\* C1: for a one-time event, the output holds an event-date entry
\* (reminderOffset null) for the event if and only if
\* 0 <= referenceDate - eventDate <= lookbackDays, in whole days.
C1_OneTimeLookbackWindow ==
    (Returned /\ Event.repeatInterval = NoRepeat) =>
        (HasEventDateEntry <=>
            (0 <= RefDay - EventDay /\ RefDay - EventDay <= settings.lookbackDays))

\* a one-time event matched on the last day of a non-empty lookback window
C1_Witness ==
    /\ Returned /\ Event.repeatInterval = NoRepeat
    /\ settings.lookbackDays > 0
    /\ RefDay - EventDay = settings.lookbackDays
    /\ HasEventDateEntry

-----------------------------------------------------------------------------
(* C2 *)

\* C2: every matched one-time event has exactly one event-date entry, and
\* its context text is "today" for diff = 0, "1 day ago" for diff = 1 and
\* "<diff> days ago" for diff > 1, where diff = referenceDate - eventDate.
C2_OneTimeContextText ==
    (/\ Returned /\ Event.repeatInterval = NoRepeat
     /\ 0 <= RefDay - EventDay /\ RefDay - EventDay <= settings.lookbackDays) =>
        /\ Len(EventDateOutput) = 1
        /\ EventDateOutput[1].displayText.context = AgoText(RefDay - EventDay)

\* a one-time event shown one day late, in the singular
C2_Witness ==
    /\ Returned /\ Event.repeatInterval = NoRepeat
    /\ RefDay - EventDay = 1
    /\ Len(EventDateOutput) = 1
    /\ EventDateOutput[1].displayText.context = "1 day ago"

-----------------------------------------------------------------------------
(* C3 *)

\* the days from this year's anchor of the event to the reference date
YearDiff == RefDay - AnchorInYear(Event.eventDate, referenceDate.year)

\* C3: a yearly event has an event-date entry if and only if
\* 0 <= diff <= lookbackDays, where diff = referenceDate - thisYearAnchor and
\* thisYearAnchor is eventDate moved into the reference date's year; the
\* context text of the entry is computed from that diff.
C3_YearlyAnchorWindow ==
    (Returned /\ Event.repeatInterval = "year") =>
        /\ HasEventDateEntry <=>
              (0 <= YearDiff /\ YearDiff <= settings.lookbackDays)
        /\ \A i \in 1 .. Len(EventDateOutput) :
              EventDateOutput[i].displayText.context = AgoText(YearDiff)

\* a yearly event anchored in an earlier year, shown two days after its
\* anniversary
C3_Witness ==
    /\ Returned /\ Event.repeatInterval = "year"
    /\ Event.eventDate.year < referenceDate.year
    /\ YearDiff = 2
    /\ Len(EventDateOutput) = 1
    /\ EventDateOutput[1].displayText.context = "2 days ago"

-----------------------------------------------------------------------------
(* C4 *)

\* the reference date lies d days after an anniversary of the event, for
\* some d in 0..lookbackDays
WithinLookbackOfAnniversary ==
    \E y \in {referenceDate.year - 1, referenceDate.year} :
        \E d \in 0 .. settings.lookbackDays :
            RefDay = AnchorInYear(Event.eventDate, y) + d

\* C4: for a yearly event, every reference date d days after one of the
\* event's anniversaries, 0 <= d <= lookbackDays, yields an event-date
\* entry, also when the anniversary is in the last days of December and the
\* reference date in January.
C4_YearlyLookbackEveryAnniversary ==
    (Returned /\ Event.repeatInterval = "year" /\ WithinLookbackOfAnniversary)
        => HasEventDateEntry

-----------------------------------------------------------------------------
(* C5 *)

\* C5: a monthly event has an event-date entry if and only if the day of
\* month of the reference date equals the day of month of the event date.
C5_MonthlyDayOfMonth ==
    (Returned /\ Event.repeatInterval = "month") =>
        (HasEventDateEntry <=> referenceDate.date = Event.eventDate.date)

\* a monthly event matched in another month; the day after it is inside
\* the lookback window and does not match
C5_Witness ==
    /\ Returned /\ Event.repeatInterval = "month"
    /\ referenceDate.date = Event.eventDate.date
    /\ referenceDate.month # Event.eventDate.month
    /\ settings.lookbackDays > 0
    /\ HasEventDateEntry

-----------------------------------------------------------------------------
(* C6 *)

\* C6: a weekly event has an event-date entry if and only if the reference
\* date falls on the weekday of the event date (the two are a whole number
\* of weeks apart), before or after the event date.
C6_WeeklyDayOfWeek ==
    (Returned /\ Event.repeatInterval = "week") =>
        (HasEventDateEntry <=> (RefDay - EventDay) % 7 = 0)

\* a weekly event matched some weeks before its event date
C6_Witness ==
    /\ Returned /\ Event.repeatInterval = "week"
    /\ RefDay < EventDay
    /\ (EventDay - RefDay) % 7 = 0
    /\ HasEventDateEntry

-----------------------------------------------------------------------------
(* C7 *)

\* C7: a daily event yields exactly one event-date entry on every
\* reference date.
C7_DailyAlwaysMatches ==
    (Returned /\ Event.repeatInterval = "day") =>
        (Len(EventDateOutput) = 1 /\ EventDateOutput[1].task = Event)

\* a daily event matched before its event date with no lookback
C7_Witness ==
    /\ Returned /\ Event.repeatInterval = "day"
    /\ RefDay < EventDay
    /\ settings.lookbackDays = 0
    /\ Len(EventDateOutput) = 1

-----------------------------------------------------------------------------
(* C8 *)

\* C8: whenever a monthly, weekly or daily event has an event-date entry,
\* the context text of the entry is "today".
C8_RecurringContextToday ==
    (Returned /\ Event.repeatInterval \in {"month", "week", "day"}) =>
        \A i \in 1 .. Len(EventDateOutput) :
            EventDateOutput[i].displayText.context = "today"

-----------------------------------------------------------------------------
(* C9 *)

\* the reference date is the event date minus n months, by the fields of
\* the two date strings: n months earlier, on the same day of the month or
\* on the last day of a shorter month
MonthsBefore(n) ==
    /\ referenceDate.year * 12 + referenceDate.month + n
          = Event.eventDate.year * 12 + Event.eventDate.month
    /\ referenceDate.date
          = Min(Event.eventDate.date,
                DaysInMonth(referenceDate.year, referenceDate.month))

\* the reference date is the event date minus the offset, calendar-aware
IsOffsetBeforeEvent(o) ==
    CASE o.unit = "day"   -> RefDay + o.number = EventDay
      [] o.unit = "week"  -> RefDay + 7 * o.number = EventDay
      [] o.unit = "month" -> MonthsBefore(o.number)
      [] o.unit = "year"  -> MonthsBefore(12 * o.number)

HasReminderEntry(o) ==
    \E i \in 1 .. Len(active) :
        active[i].reminderOffset = o /\ active[i].task = Event

OffsetsOf(task) == {task.reminderOffsets[i] : i \in 1 .. Len(task.reminderOffsets)}

\* C9: for a one-time event whose reminder offsets have number >= 1, an
\* offset has a reminder entry exactly on the reference date eventDate
\* minus the offset (calendar-aware, no lookback); reminders fire only
\* before the event date, when the event-date check does not match, and on
\* the event date the output is the event-date entry alone.
C9_OneTimeReminderDates ==
    (/\ Returned /\ Event.repeatInterval = NoRepeat
     /\ \A o \in OffsetsOf(Event) : o.number >= 1) =>
        /\ \A o \in OffsetsOf(Event) :
              HasReminderEntry(o) <=> IsOffsetBeforeEvent(o)
        /\ ReminderOutput # << >> => (RefDay < EventDay /\ ~HasEventDateEntry)
        /\ RefDay = EventDay =>
              (Len(active) = 1 /\ active[1].reminderOffset = NoOffset)

\* a one-time event with two different offsets, of which the month offset
\* fires alone, on the last day of a shorter month
C9_Witness ==
    /\ Returned /\ Event.repeatInterval = NoRepeat
    /\ Len(Event.reminderOffsets) = 2
    /\ Event.reminderOffsets[1] # Event.reminderOffsets[2]
    /\ Len(active) = 1
    /\ active[1].reminderOffset = Event.reminderOffsets[2]
    /\ active[1].reminderOffset.unit = "month"
    /\ referenceDate.date < Event.eventDate.date

-----------------------------------------------------------------------------
(* C10 *)

\* "<number> <unit> early", the unit in the singular exactly for number 1
EarlyText(o) ==
    ToString(o.number) \o " " \o o.unit
        \o (IF o.number = 1 THEN "" ELSE "s") \o " early"

\* C10: every reminder entry carries the context text
\* "<number> <unit> early", singular exactly when number = 1, and its
\* reminderOffset is an offset of its task whose reminder date is the
\* reference date.
C10_ReminderContextText ==
    Returned =>
        \A i \in 1 .. Len(active) :
            active[i].reminderOffset # NoOffset =>
                /\ active[i].displayText.context = EarlyText(active[i].reminderOffset)
                /\ active[i].reminderOffset \in OffsetsOf(active[i].task)
                /\ calculateReminderDate(Moment(active[i].task.eventDate),
                       active[i].reminderOffset, active[i].task.repeatInterval,
                       Moment(referenceDate)) = Moment(referenceDate)

\* a reminder of one week on a recurring event, written in the singular
C10_Witness ==
    /\ Returned
    /\ Event.repeatInterval # NoRepeat
    /\ \E i \in 1 .. Len(active) :
          /\ active[i].reminderOffset = [number |-> 1, unit |-> "week"]
          /\ active[i].displayText.context = "1 week early"

-----------------------------------------------------------------------------
(* C11 *)

\* the reference date is the day t minus n months, by the fields of the
\* dates: n months earlier, on the same day of the month or on the last day
\* of a shorter month
MonthsBeforeDay(n, t) ==
    LET c == CivilFromDays(t)
    IN  /\ referenceDate.year * 12 + referenceDate.month + n
              = c.year * 12 + c.month
        /\ referenceDate.date
              = Min(c.date, DaysInMonth(referenceDate.year, referenceDate.month))

\* the reference date is the day t minus the offset, calendar-aware
IsOffsetBeforeDay(o, t) ==
    CASE o.unit = "day"   -> RefDay + o.number = t
      [] o.unit = "week"  -> RefDay + 7 * o.number = t
      [] o.unit = "month" -> MonthsBeforeDay(o.number, t)
      [] o.unit = "year"  -> MonthsBeforeDay(12 * o.number, t)

\* the day t one year later (Feb 29 falls on Feb 28)
OneYearLater(t) ==
    LET c == CivilFromDays(t)
    IN  DaysFromCivil(c.year + 1, c.month,
                      Min(c.date, DaysInMonth(c.year + 1, c.month)))

\* T of a yearly event: the event date moved into the reference date's
\* year, or that date one year later when it is before the reference date
YearlyTarget ==
    LET a == AnchorInYear(Event.eventDate, referenceDate.year)
    IN  IF a < RefDay THEN OneYearLater(a) ELSE a

\* C11: for a yearly event, the reminder of an offset fires if and only if
\* T minus the offset is the reference date R, where T is eventDate moved
\* into R's year, or that date one year later when it is strictly before R;
\* T is never before R and is less than one year (at most 365 days) after R.
C11_YearlyReminderTarget ==
    (Returned /\ Event.repeatInterval = "year") =>
        /\ \A o \in OffsetsOf(Event) :
              HasReminderEntry(o) <=> IsOffsetBeforeDay(o, YearlyTarget)
        /\ YearlyTarget >= RefDay
        /\ YearlyTarget - RefDay <= 365

\* a yearly event whose anniversary of this year has passed: the reminder
\* fires before the anniversary of the next year
C11_Witness ==
    /\ Returned /\ Event.repeatInterval = "year"
    /\ AnchorInYear(Event.eventDate, referenceDate.year) < RefDay
    /\ Len(Event.reminderOffsets) = 1
    /\ HasReminderEntry(Event.reminderOffsets[1])

-----------------------------------------------------------------------------
(* C12 *)

\* the day t one month later (a day past the end of the month falls on its
\* last day)
OneMonthLater(t) ==
    LET c == CivilFromDays(t)
        y == IF c.month = 12 THEN c.year + 1 ELSE c.year
        m == IF c.month = 12 THEN 1 ELSE c.month + 1
    IN  DaysFromCivil(y, m, Min(c.date, DaysInMonth(y, m)))

\* the event date moved into the month and year of the reference date (a
\* day past the end of that month falls on its last day)
AnchorInMonth ==
    DaysFromCivil(referenceDate.year, referenceDate.month,
                  Min(Event.eventDate.date,
                      DaysInMonth(referenceDate.year, referenceDate.month)))

\* T of a monthly event
MonthlyTarget ==
    IF AnchorInMonth < RefDay THEN OneMonthLater(AnchorInMonth) ELSE AnchorInMonth

\* C12: for a monthly event, the reminder of an offset fires if and only if
\* T minus the offset is the reference date R, where T is eventDate moved
\* into R's month and year, or that date one month later when it is strictly
\* before R.
C12_MonthlyReminderTarget ==
    (Returned /\ Event.repeatInterval = "month") =>
        \A o \in OffsetsOf(Event) :
            HasReminderEntry(o) <=> IsOffsetBeforeDay(o, MonthlyTarget)

-----------------------------------------------------------------------------
(* C13 *)

\* D in 1..7: the days from the reference date to the first later day on
\* the weekday of the event date
DaysToNextWeekday == ((EventDay - RefDay - 1) % 7) + 1

\* C13: for a weekly event, the target occurrence is the first date strictly
\* after the reference date R on the weekday of eventDate, R + D with D in
\* 1..7 and D = 7 when R falls on that weekday; an offset {n, day} fires
\* exactly when D = n and an offset {1, week} exactly on the event's weekday.
C13_WeeklyReminderTarget ==
    (Returned /\ Event.repeatInterval = "week") =>
        /\ targetEvent(Moment(Event.eventDate), "week", Moment(referenceDate))
              = RefDay + DaysToNextWeekday
        /\ (EventDay - RefDay) % 7 = 0 <=> DaysToNextWeekday = 7
        /\ \A o \in OffsetsOf(Event) :
              /\ o.unit = "day" =>
                    (HasReminderEntry(o) <=> DaysToNextWeekday = o.number)
              /\ (o.unit = "week" /\ o.number = 1) =>
                    (HasReminderEntry(o) <=> (EventDay - RefDay) % 7 = 0)

\* a weekly event on its own weekday, reminded one week early
C13_Witness ==
    /\ Returned /\ Event.repeatInterval = "week"
    /\ (EventDay - RefDay) % 7 = 0
    /\ Event.reminderOffsets = << [number |-> 1, unit |-> "week"] >>
    /\ HasReminderEntry([number |-> 1, unit |-> "week"])

-----------------------------------------------------------------------------
(* C14 *)

\* C14: for a daily event the target occurrence is the reference date
\* itself, and for every offset with number >= 1 no reminder entry is
\* produced on any reference date.
C14_DailyNoReminder ==
    (Returned /\ Event.repeatInterval = "day") =>
        /\ targetEvent(Moment(Event.eventDate), "day", Moment(referenceDate))
              = RefDay
        /\ \A o \in OffsetsOf(Event) : o.number >= 1 => ~HasReminderEntry(o)

\* a daily event with a reminder offset: the output is the event-date entry
\* alone
C14_Witness ==
    /\ Returned /\ Event.repeatInterval = "day"
    /\ Len(Event.reminderOffsets) = 1
    /\ Event.reminderOffsets[1].number >= 1
    /\ Len(active) = 1
    /\ active[1].reminderOffset = NoOffset

-----------------------------------------------------------------------------
(* C15 *)

\* the entries of the output for the task at position i
EntriesOf(i) == SelectSeq(active, LAMBDA n : n.task = tasks[i])

\* the position of a task in the input
PositionOf(t) == CHOOSE i \in 1 .. Len(tasks) : tasks[i] = t

\* the offsets of the task whose reminder date is the reference date, in the
\* order of reminderOffsets
FiredOffsets(t) ==
    SelectSeq(t.reminderOffsets,
              LAMBDA o : calculateReminderDate(Moment(t.eventDate), o,
                             t.repeatInterval, Moment(referenceDate))
                         = Moment(referenceDate))

\* C15: the output is ordered by the position of the events in the input;
\* within one event the event-date entry comes before the reminder entries,
\* which follow the order of reminderOffsets; the entries of one event do not
\* depend on the other events of the input; an empty input yields an empty
\* output.
C15_OutputOrder ==
    Returned =>
        /\ \A k, l \in 1 .. Len(active) :
              k < l =>
                 /\ PositionOf(active[k].task) <= PositionOf(active[l].task)
                 /\ (active[k].task = active[l].task
                        /\ active[l].reminderOffset = NoOffset)
                       => active[k].reminderOffset = NoOffset
        /\ \A i \in 1 .. Len(tasks) :
              /\ LET reminders ==
                         SelectSeq(EntriesOf(i),
                                   LAMBDA n : n.reminderOffset # NoOffset)
                 IN  [k \in 1 .. Len(reminders) |-> reminders[k].reminderOffset]
                        = FiredOffsets(tasks[i])
              /\ EntriesOf(i) = getActiveNotifications(<< tasks[i] >>, referenceDate)
        /\ tasks = << >> => active = << >>

\* two events with entries: the first has an event-date entry and two
\* reminder entries
C15_Witness ==
    /\ Returned /\ Len(tasks) = 2
    /\ Len(EntriesOf(1)) = 3
    /\ Len(EntriesOf(2)) >= 1
    /\ tasks[1].reminderOffsets[1] # tasks[1].reminderOffsets[2]

-----------------------------------------------------------------------------
(* C16 *)

\* C16: the output of one call contains at most two entries for any single
\* event.
C16_AtMostTwoEntries ==
    Returned => \A i \in 1 .. Len(tasks) : Len(EntriesOf(i)) <= 2

\* C16, amended: the output of one call contains, for any single event, at
\* most one event-date entry and at most one entry per reminder offset, that
\* is at most 1 + the number of its reminder offsets.
C16_AtMostOnePerCheck ==
    Returned =>
        \A i \in 1 .. Len(tasks) :
            /\ Len(SelectSeq(EntriesOf(i), LAMBDA n : n.reminderOffset = NoOffset)) <= 1
            /\ Len(EntriesOf(i)) <= 1 + Len(tasks[i].reminderOffsets)

\* an event with three entries: its event date and both of its offsets
C16_Witness ==
    /\ Returned
    /\ \E i \in 1 .. Len(tasks) :
          /\ Len(tasks[i].reminderOffsets) = 2
          /\ Len(EntriesOf(i)) = 3

-----------------------------------------------------------------------------
(* C17 *)

\* the event-date rule of the repeat interval holds on the reference date
EventDateRuleHolds ==
    CASE Event.repeatInterval = NoRepeat ->
            0 <= RefDay - EventDay /\ RefDay - EventDay <= settings.lookbackDays
      [] Event.repeatInterval = "year" ->
            0 <= YearDiff /\ YearDiff <= settings.lookbackDays
      [] Event.repeatInterval = "month" ->
            referenceDate.date = Event.eventDate.date
      [] Event.repeatInterval = "week" -> (RefDay - EventDay) % 7 = 0
      [] Event.repeatInterval = "day" -> TRUE

\* C17: Check 1 and Check 2 are evaluated independently: the output holds
\* one entry with reminderOffset null when the event-date rule holds and one
\* entry for every offset that lands on the reference date, also when both
\* happen on the same reference date; nothing is merged or left out.
C17_IndependentChecks ==
    Returned =>
        /\ EventDateRuleHolds => HasEventDateEntry
        /\ [k \in 1 .. Len(ReminderOutput) |-> ReminderOutput[k].reminderOffset]
              = FiredOffsets(Event)
        /\ Len(active) = (IF EventDateRuleHolds THEN 1 ELSE 0)
                            + Len(FiredOffsets(Event))

\* an event whose event date and one of whose offsets match on the same
\* reference date: two separate entries
C17_Witness ==
    /\ Returned
    /\ EventDateRuleHolds
    /\ Len(FiredOffsets(Event)) = 1
    /\ Len(active) = 2
    /\ active[1].reminderOffset = NoOffset
    /\ active[2].reminderOffset # NoOffset

-----------------------------------------------------------------------------
(* C18 *)

\* C18: a reminder offset whose number is 0 never produces a reminder
\* entry, for every event, repeat interval and reference date.
C18_ZeroOffsetNeverFires ==
    Returned =>
        \A o \in OffsetsOf(Event) : o.number = 0 => ~HasReminderEntry(o)

\* C18, amended: a reminder offset whose number is 0 produces a reminder
\* entry exactly when the target occurrence of the event is the reference
\* date itself: on every reference date for a daily event, on the event date
\* for a one-time event, on the anniversary of the reference year for a
\* yearly event and never for a weekly event.
C18_ZeroOffsetFiresOnTarget ==
    Returned =>
        \A o \in OffsetsOf(Event) :
            o.number = 0 =>
                /\ HasReminderEntry(o) <=>
                      targetEvent(Moment(Event.eventDate), Event.repeatInterval,
                                  Moment(referenceDate)) = RefDay
                /\ Event.repeatInterval = "day" => HasReminderEntry(o)
                /\ Event.repeatInterval = NoRepeat =>
                      (HasReminderEntry(o) <=> RefDay = EventDay)
                /\ Event.repeatInterval = "year" =>
                      (HasReminderEntry(o) <=>
                          RefDay = AnchorInYear(Event.eventDate, referenceDate.year))
                /\ Event.repeatInterval = "week" => ~HasReminderEntry(o)

\* a daily event with an offset of 0 days: the reminder is produced next to
\* the event-date entry
C18_Witness ==
    /\ Returned /\ Event.repeatInterval = "day"
    /\ Event.reminderOffsets = << [number |-> 0, unit |-> "day"] >>
    /\ Len(active) = 2
    /\ active[2].reminderOffset = [number |-> 0, unit |-> "day"]
    /\ active[2].displayText.context = "0 days early"

-----------------------------------------------------------------------------
(* C20 *)

\* the context text is the text of a reminder of one of the task's offsets
IsReminderText(entry) ==
    \E o \in OffsetsOf(entry.task) : entry.displayText.context = EarlyText(o)

\* C20: a call leaves the task records (with their eventDate and
\* reminderOffsets), the reference date and the settings as they were; the
\* task of every output entry is one of the input records, identity fields
\* included, and reminderOffset is null exactly for the event-date entries.
C20_InputsUnchanged ==
    [][(pc = "start" /\ pc' = "done") =>
          /\ tasks' = tasks
          /\ referenceDate' = referenceDate
          /\ settings' = settings
          /\ \A k \in 1 .. Len(active') :
                /\ \E i \in 1 .. Len(tasks) : active'[k].task = tasks[i]
                /\ active'[k].reminderOffset = NoOffset
                      <=> ~IsReminderText(active'[k])]_vars

\* a call with two tasks has returned an event-date entry of the second
\* task and a reminder entry of the first
C20_Witness ==
    /\ Returned /\ Len(tasks) = 2
    /\ \E k, l \in 1 .. Len(active) :
          /\ active[k].task = tasks[2] /\ active[k].reminderOffset = NoOffset
          /\ active[l].task = tasks[1] /\ active[l].reminderOffset # NoOffset
    /\ tasks[1] # [tasks[2] EXCEPT !.lineNumber = 1]

-----------------------------------------------------------------------------
(* C26 *)

\* the day difference handed to getEventDateContext for the event of the
\* call: from this year's anniversary for a yearly event, from the event
\* date otherwise
PassedDaysDiff ==
    IF Event.repeatInterval = "year"
    THEN RefDay - AnchorInYear(Event.eventDate, referenceDate.year)
    ELSE RefDay - EventDay

\* C26: for a matched event of any repeat interval the day difference
\* handed to getEventDateContext is not negative, and every context text of
\* the output is "today", "<n> day(s) ago" or "<n> <unit>(s) early".
C26_DaysDiffNeverNegative ==
    Returned =>
        /\ HasEventDateEntry => PassedDaysDiff >= 0
        /\ \A i \in 1 .. Len(active) :
              \/ active[i].displayText.context = AgoText(Abs(PassedDaysDiff))
              \/ IsReminderText(active[i])

-----------------------------------------------------------------------------
(* C28 *)

\* the target occurrence the reminders of the call's event are taken from
TargetDay ==
    targetEvent(Moment(Event.eventDate), Event.repeatInterval,
                Moment(referenceDate))

\* day t is an occurrence of the call's event: the event-date rule of its
\* repeat interval matches on t with zero day difference
IsOccurrence(t) ==
    CASE Event.repeatInterval = "year" ->
            t = AnchorInYear(Event.eventDate, YearOf(t))
      [] Event.repeatInterval = "month" -> DateOf(t) = Event.eventDate.date
      [] Event.repeatInterval = "week" -> (t - EventDay) % 7 = 0
      [] Event.repeatInterval = "day" -> TRUE
      [] OTHER -> t = EventDay

\* C28: for a recurring event with a reminder offset, the target occurrence
\* is not before the reference date and is an occurrence of the event, also
\* for events on days 29-31 and on Feb 29.
C28_TargetIsOccurrence ==
    (Returned /\ Event.repeatInterval # NoRepeat /\ OffsetsOf(Event) # {}) =>
        /\ TargetDay >= RefDay
        /\ IsOccurrence(TargetDay)

\* the same, for the first part alone
C28_TargetNotBeforeReference ==
    (Returned /\ Event.repeatInterval # NoRepeat /\ OffsetsOf(Event) # {}) =>
        TargetDay >= RefDay

-----------------------------------------------------------------------------
(* Acknowledgements (src/src/main.ts, src/src/renderer.ts)                 *)

\* the days the clock runs through
NumAckDates == 8
FirstAckDate == DaysFromCivil(2024, 2, 27)
LastAckDate == FirstAckDate + NumAckDates - 1

AckEventDates ==
    {[year |-> 2023, month |-> 3, date |-> 1],
     [year |-> 2024, month |-> 3, date |-> 1]}

\* a >= b on "YYYY-MM-DD" strings: the order of their characters
DateStringGeq(a, b) ==
    \/ a.year > b.year
    \/ a.year = b.year /\ a.month > b.month
    \/ a.year = b.year /\ a.month = b.month /\ a.date >= b.date

\* `${filePath}:${lineNumber}:${offset}`
getNotificationKey(notif) ==
    LET offset == IF notif.reminderOffset # NoOffset
                  THEN ToString(notif.reminderOffset.number) \o "-"
                          \o notif.reminderOffset.unit
                  ELSE "event"
    IN  notif.task.filePath \o ":" \o ToString(notif.task.lineNumber)
           \o ":" \o offset

isAcknowledged(acks, key, today) ==
    IF key \notin DOMAIN acks THEN FALSE
    ELSE DateStringGeq(acks[key], today)

\* the notifications a notify block shows on the day of the clock
Shown(today) == getActiveNotifications(tasks, today)

\* the keys of the checkboxes of a rendered list
KeysOf(notifications) ==
    {getNotificationKey(notifications[i]) : i \in 1 .. Len(notifications)}

ShownKeys(today) == KeysOf(Shown(today))

InitAcknowledgements ==
    /\ \E e \in AckEventDates, r \in RepeatIntervals,
          o \in {<< >>, << [number |-> 1, unit |-> "day"] >>} :
          tasks = << Task(e, r, o) >>
    /\ referenceDate = CivilFromDays(FirstAckDate)
    /\ settings = [lookbackDays |-> DefaultLookbackDays]
    /\ active = << >>
    /\ pc = "start"
    /\ acknowledgements = << >>
    /\ InitRenderers
    /\ InitBlockIdManager
    /\ InitCache
    /\ InitEventManager

\* the checkbox of a shown notification is checked
AcknowledgeNotification(key) ==
    /\ ~isAcknowledged(acknowledgements, key, referenceDate)
    /\ acknowledgements' =
          [k \in DOMAIN acknowledgements \cup {key} |->
              IF k = key THEN referenceDate ELSE acknowledgements[k]]
    /\ UNCHANGED <<matcherVars, rendererVars, blockIdVars, cacheVars, eventVars>>

\* the checkbox of a shown notification is unchecked
UnacknowledgeNotification(key) ==
    /\ isAcknowledged(acknowledgements, key, referenceDate)
    /\ acknowledgements' =
          [k \in DOMAIN acknowledgements \ {key} |-> acknowledgements[k]]
    /\ UNCHANGED <<matcherVars, rendererVars, blockIdVars, cacheVars, eventVars>>

\* midnight: moment() is on the next day
NextDay ==
    /\ Moment(referenceDate) < LastAckDate
    /\ referenceDate' = CivilFromDays(Moment(referenceDate) + 1)
    /\ UNCHANGED <<tasks, settings, active, pc, pluginVars>>

\* a checkbox exists for every notification shown on the day of the clock
NextAcknowledgements ==
    \/ \E key \in ShownKeys(referenceDate) : AcknowledgeNotification(key)
    \/ \E key \in ShownKeys(referenceDate) : UnacknowledgeNotification(key)
    \/ NextDay

SpecAcknowledgements == InitAcknowledgements /\ [][NextAcknowledgements]_vars

-----------------------------------------------------------------------------
(* C21 *)

\* entry n of the list shown on day t is shown for the same trigger as an
\* entry of the list of the day before: an event-date entry of a one-time
\* or yearly event whose lookback window, from the same anchor, holds both
\* days
SameCycleAsYesterday(n, t) ==
    /\ n.reminderOffset = NoOffset
    /\ n.task.repeatInterval \in {NoRepeat, "year"}
    /\ getNotificationKey(n) \in ShownKeys(CivilFromDays(Moment(t) - 1))
    /\ CivilFromDays(Moment(t) - 1).year = t.year

\* C21: a notification acknowledged on one day is still acknowledged on the
\* next day when it is shown then for the same trigger cycle (a later day of
\* the lookback window of a one-time or yearly event), and unacknowledging
\* removes the acknowledgement at once.
C21_AcknowledgedForTheCycle ==
    [][/\ referenceDate' # referenceDate =>
             \A i \in 1 .. Len(Shown(referenceDate')) :
                LET n == Shown(referenceDate')[i]
                IN  (/\ SameCycleAsYesterday(n, referenceDate')
                     /\ isAcknowledged(acknowledgements, getNotificationKey(n),
                                       referenceDate))
                    => isAcknowledged(acknowledgements', getNotificationKey(n),
                                      referenceDate')
       /\ \A key \in ShownKeys(referenceDate) :
             UnacknowledgeNotification(key) =>
                ~isAcknowledged(acknowledgements', key, referenceDate')]_vars

\* the second half alone: unacknowledging removes the acknowledgement
C21_UnacknowledgeRemoves ==
    [][\A key \in ShownKeys(referenceDate) :
          UnacknowledgeNotification(key) =>
             ~isAcknowledged(acknowledgements', key, referenceDate')]_vars

-----------------------------------------------------------------------------
(* Notify blocks (src/src/renderer.ts)                                     *)

\* `${filePath}:${lineNumber}:${number ?? "event"}` of one notification
HashItem(n) ==
    n.task.filePath \o ":" \o ToString(n.task.lineNumber) \o ":"
       \o (IF n.reminderOffset # NoOffset
           THEN ToString(n.reminderOffset.number) ELSE "event")

\* the sorted items joined by "|": two lists give the same string exactly
\* when they hold the same items the same number of times, so the hash is
\* modelled by the bag of the items
hashNotifications(notifications) ==
    LET items == {HashItem(notifications[i]) : i \in 1 .. Len(notifications)}
    IN  [k \in items |->
            Cardinality({i \in 1 .. Len(notifications) :
                            HashItem(notifications[i]) = k})]

\* the container after render() on a list of notifications
Rendered(notifications) ==
    IF Len(notifications) = 0
    THEN [state |-> "empty", items |-> << >>]
    ELSE [state |-> "list", items |-> notifications]

RendererEventDates ==
    {[year |-> 2024, month |-> 3, date |-> 1],
     [year |-> 2024, month |-> 3, date |-> 5]}

RendererOffsetSeqs ==
    {<< >>,
     << [number |-> 1, unit |-> "week"], [number |-> 1, unit |-> "day"] >>}

\* the first render of block r1, on a list of notifications
FirstRender(activeNotifications) ==
    /\ lastRenderHash =
          [r \in Renderers |->
              IF r = "r1" THEN hashNotifications(activeNotifications)
              ELSE EmptyHash]
    /\ rendered =
          [r \in Renderers |->
              IF r = "r1" THEN Rendered(activeNotifications) ELSE NotRendered]

\* one notify block that has loaded and rendered on the first day
InitRenderer ==
    /\ \E e \in RendererEventDates, r \in RepeatIntervals,
          o \in RendererOffsetSeqs : tasks = << Task(e, r, o) >>
    /\ referenceDate = CivilFromDays(FirstAckDate)
    /\ settings = [lookbackDays |-> DefaultLookbackDays]
    /\ active = << >>
    /\ pc = "start"
    /\ acknowledgements = << >>
    /\ activeRenderers = {"r1"}
    /\ FirstRender(Shown(referenceDate))
    /\ rerendered = [r \in Renderers |-> FALSE]
    /\ InitBlockIdManager
    /\ InitCache
    /\ debounceTimers = << >>
    /\ windowTimers = << >>
    /\ burst = << >>
    /\ removed = {}
    /\ initialize = Registered

\* refresh(), from the hash on: render only if the list has changed
RenderIfChanged(r, activeNotifications) ==
    LET currentHash == hashNotifications(activeNotifications)
    IN  IF currentHash # lastRenderHash[r]
        THEN /\ lastRenderHash' = [lastRenderHash EXCEPT ![r] = currentHash]
             /\ rendered' = [rendered EXCEPT ![r] = Rendered(activeNotifications)]
             /\ rerendered' = [rerendered EXCEPT ![r] = TRUE]
        ELSE /\ rerendered' = [rerendered EXCEPT ![r] = FALSE]
             /\ UNCHANGED <<lastRenderHash, rendered>>

\* refresh() of a renderer, the cache being there
Refresh(r) ==
    /\ r \in activeRenderers
    /\ RenderIfChanged(r, Shown(referenceDate))
    /\ UNCHANGED <<matcherVars, acknowledgements, activeRenderers, blockIdVars,
                   cacheVars, eventVars>>

NextRenderer ==
    \/ \E r \in Renderers : Refresh(r)
    \/ NextDay

SpecRenderer == InitRenderer /\ [][NextRenderer]_vars

-----------------------------------------------------------------------------
(* C25 *)

\* C25: a refresh renders again exactly when the list of active
\* notifications differs from the list rendered last, be it in the
\* notifications, in the offset that fired or in the context text.
C25_RefreshIffListChanged ==
    [][\A r \in Renderers :
          Refresh(r) =>
             (rerendered'[r] <=> Rendered(Shown(referenceDate)) # rendered[r])]_vars

\* one half alone: a refresh on an unchanged list does not render
C25_NoRenderWhenUnchanged ==
    [][\A r \in Renderers :
          (Refresh(r) /\ Rendered(Shown(referenceDate)) = rendered[r])
             => ~rerendered'[r]]_vars

-----------------------------------------------------------------------------
(* Block-ID manager (src/src/blockid-manager.ts)                           *)

\* the task objects made by the parser in one run of the model
MaxTaskObjects == 2

Files == {"a.md", "b.md"}
BlockIds == {"aaaaaa", "bbbbbb"}

\* a line of a file: its text, and the block IDs appended to it (the string
\* of the line is text, then " ^" and the ID for each of them)
TaskLine == [text |-> "- [ ] Pay rent (date) 2024-03-01 (bell)", ids |-> << >>]
EditedLine == [text |-> "- [ ] Pay rent (date) 2024-04-01 (bell)", ids |-> << >>]
PlainLine == [text |-> "notes", ids |-> << >>]
EmptyLine == [text |-> "", ids |-> << >>]

\* the file the user is editing
EditedFile == "a.md"

\* line + " ^" + blockId
AppendBlockId(line, blockId) == [line EXCEPT !.ids = Append(@, blockId)]

\* TaskParser.hasNotificationMarker and extractDate
HasNotificationMarker(line) == line.text \in {TaskLine.text, EditedLine.text}

\* TaskParser.extractBlockId: the ID at the end of the line, "" if none
ExtractBlockId(line) ==
    IF line.ids = << >> THEN "" ELSE line.ids[Len(line.ids)]

\* the file paths of the queued tasks, in the order of their first task
RECURSIVE FilesFrom(_, _, _)
FilesFrom(q, i, seen) ==
    IF i > Len(q) THEN << >>
    ELSE LET f == taskObjects[q[i]].filePath
         IN  IF f \in seen THEN FilesFrom(q, i + 1, seen)
             ELSE << f >> \o FilesFrom(q, i + 1, seen \cup {f})

groupByFile(q) ==
    LET files == FilesFrom(q, 1, {})
    IN  [j \in 1 .. Len(files) |->
            [filePath |-> files[j],
             tasks |-> SelectSeq(q, LAMBDA t : taskObjects[t].filePath = files[j])]]

\* mutant: the line is not compared with the task's originalText
RECURSIVE addBlockIds_NoSafetyCheck(_, _, _, _, _)
addBlockIds_NoSafetyCheck(lines, objs, ts, ids, k) ==
    IF k > Len(ts) THEN [lines |-> lines, objs |-> objs]
    ELSE LET task == objs[ts[k]]
             lineIndex == task.lineNumber
         IN  IF lineIndex > Len(lines) \/ lines[lineIndex] = EmptyLine
             THEN addBlockIds_NoSafetyCheck(lines, objs, ts, ids, k + 1)
             ELSE addBlockIds_NoSafetyCheck(
                      [lines EXCEPT ![lineIndex] = AppendBlockId(@, ids[k])],
                      [objs EXCEPT ![ts[k]].blockId = ids[k]],
                      ts, ids, k + 1)

\* the callback of vault.process in addBlockIdsToFile, from the k-th task
\* on; ids[k] is the ID generated for the k-th task
RECURSIVE addBlockIds(_, _, _, _, _)
addBlockIds(lines, objs, ts, ids, k) ==
    IF k > Len(ts) THEN [lines |-> lines, objs |-> objs]
    ELSE LET task == objs[ts[k]]
             lineIndex == task.lineNumber
         IN  IF lineIndex > Len(lines) \/ lines[lineIndex] = EmptyLine
             THEN addBlockIds(lines, objs, ts, ids, k + 1)
             ELSE IF lines[lineIndex] # task.originalText
             THEN addBlockIds(lines, objs, ts, ids, k + 1)
             ELSE addBlockIds(
                      [lines EXCEPT ![lineIndex] = AppendBlockId(@, ids[k])],
                      [objs EXCEPT ![ts[k]].blockId = ids[k]],
                      ts, ids, k + 1)

InitBlockIds ==
    /\ tasks = << >>
    /\ referenceDate = CivilFromDays(FirstAckDate)
    /\ settings = [lookbackDays |-> DefaultLookbackDays]
    /\ active = << >>
    /\ pc = "start"
    /\ acknowledgements = << >>
    /\ InitRenderers
    /\ vaultLines = [f \in Files |->
                        IF f = "a.md" THEN << TaskLine, PlainLine >>
                        ELSE << TaskLine >>]
    /\ taskObjects = << >>
    /\ queue = << >>
    /\ runs = [p \in Runs |-> IdleRun]
    /\ handed = {}
    /\ InitCache
    /\ InitEventManager

\* parseTasksFromMetadata makes the task object of line i of a file and
\* hands it to queueTask, which queues it if it has no block ID
QueueTask(path, i) ==
    /\ Len(taskObjects) < MaxTaskObjects
    /\ i \in 1 .. Len(vaultLines[path])
    /\ HasNotificationMarker(vaultLines[path][i])
    /\ LET line == vaultLines[path][i]
           task == [filePath |-> path, lineNumber |-> i,
                    blockId |-> ExtractBlockId(line), originalText |-> line]
       IN  /\ taskObjects' = Append(taskObjects, task)
           /\ queue' = IF task.blockId = ""
                       THEN Append(queue, Len(taskObjects) + 1)
                       ELSE queue
    /\ UNCHANGED <<matcherVars, acknowledgements, rendererVars, cacheVars,
                   eventVars, vaultLines,
                   runs, handed>>

\* processQueue up to its first await (with an empty queue it returns at
\* once and changes nothing)
ProcessQueue(p) ==
    /\ runs[p].pc = "idle"
    /\ queue # << >>
    /\ runs' = [runs EXCEPT ![p] = [pc |-> "files",
                                     tasksByFile |-> groupByFile(queue)]]
    /\ UNCHANGED <<matcherVars, acknowledgements, rendererVars, cacheVars,
                   eventVars, vaultLines,
                   taskObjects, queue, handed>>

\* one round of the loop of processQueue: addBlockIdsToFile on the next file
AddBlockIdsToFile(p) ==
    /\ runs[p].pc = "files"
    /\ runs[p].tasksByFile # << >>
    /\ LET group == Head(runs[p].tasksByFile)
       IN  /\ \E ids \in [1 .. Len(group.tasks) -> BlockIds] :
                 LET res == addBlockIds(vaultLines[group.filePath], taskObjects,
                                        group.tasks, ids, 1)
                 IN  /\ vaultLines' =
                           [vaultLines EXCEPT ![group.filePath] = res.lines]
                     /\ taskObjects' = res.objs
           /\ handed' =
                 handed \cup {group.tasks[k] : k \in 1 .. Len(group.tasks)}
    /\ runs' = [runs EXCEPT ![p].tasksByFile = Tail(@)]
    /\ UNCHANGED <<matcherVars, acknowledgements, rendererVars, cacheVars,
                   eventVars, queue>>

\* the end of processQueue: this.queue = []
ClearQueue(p) ==
    /\ runs[p].pc = "files"
    /\ runs[p].tasksByFile = << >>
    /\ queue' = << >>
    /\ runs' = [runs EXCEPT ![p] = IdleRun]
    /\ UNCHANGED <<matcherVars, acknowledgements, rendererVars, cacheVars,
                   eventVars, vaultLines,
                   taskObjects, handed>>

\* the user rewrites the first line of a file
EditLine(path, line) ==
    /\ path = EditedFile
    /\ vaultLines[path][1] # line
    /\ vaultLines' = [vaultLines EXCEPT ![path][1] = line]
    /\ UNCHANGED <<matcherVars, acknowledgements, rendererVars, cacheVars,
                   eventVars, taskObjects,
                   queue, runs, handed>>

NextBlockIds ==
    \/ \E path \in Files, i \in 1 .. 2 : QueueTask(path, i)
    \/ \E p \in Runs : ProcessQueue(p)
    \/ \E p \in Runs : AddBlockIdsToFile(p)
    \/ \E p \in Runs : ClearQueue(p)
    \/ \E path \in Files, line \in {TaskLine, EditedLine, EmptyLine} :
          EditLine(path, line)

SpecBlockIds == InitBlockIds /\ [][NextBlockIds]_vars

-----------------------------------------------------------------------------
(* C24 *)

\* the tasks of the file that run p hands to addBlockIdsToFile next
NextGroup(p) == Head(runs[p].tasksByFile)

\* task object t is among the tasks of a group
InGroup(t, group) == \E k \in 1 .. Len(group.tasks) : group.tasks[k] = t

\* C24: addBlockIdsToFile changes a line only if it equals the originalText
\* of a task queued for it, by appending one block ID; a task whose line is
\* missing or has changed keeps its empty blockId; no line ever carries
\* more than one block ID and every other line of every file is unchanged.
C24_OnlyUnchangedLines ==
    [][\A p \in Runs :
          AddBlockIdsToFile(p) =>
             /\ \A f \in Files : \A i \in 1 .. Len(vaultLines[f]) :
                   vaultLines'[f][i] # vaultLines[f][i] =>
                      /\ f = NextGroup(p).filePath
                      /\ \E t \in 1 .. Len(taskObjects) :
                            /\ InGroup(t, NextGroup(p))
                            /\ taskObjects[t].lineNumber = i
                            /\ taskObjects[t].originalText = vaultLines[f][i]
                      /\ \E b \in BlockIds :
                            vaultLines'[f][i] = AppendBlockId(vaultLines[f][i], b)
             /\ \A f \in Files :
                   /\ Len(vaultLines'[f]) = Len(vaultLines[f])
                   /\ \A i \in 1 .. Len(vaultLines'[f]) :
                         Len(vaultLines'[f][i].ids) <= 1
             /\ \A t \in 1 .. Len(taskObjects) :
                   taskObjects'[t].blockId # taskObjects[t].blockId =>
                      /\ InGroup(t, NextGroup(p))
                      /\ taskObjects[t].originalText
                            = vaultLines[taskObjects[t].filePath]
                                        [taskObjects[t].lineNumber]]_vars

\* a line was queued twice and both task objects went through
\* addBlockIdsToFile: the line carries one block ID, one object has it and
\* the other has none
C24_Witness ==
    \E t, u \in handed :
        /\ t # u
        /\ taskObjects[t].filePath = taskObjects[u].filePath
        /\ taskObjects[t].lineNumber = taskObjects[u].lineNumber
        /\ taskObjects[t].blockId # ""
        /\ taskObjects[u].blockId = ""
        /\ vaultLines[taskObjects[t].filePath][taskObjects[t].lineNumber].ids
              = << taskObjects[t].blockId >>

-----------------------------------------------------------------------------
(* C29 *)

-----------------------------------------------------------------------------
(* Cache (src/src/cache.ts)                                                *)

FileObjs == {"f1", "f2"}

\* a file may be renamed to c.md
Paths == Files \cup {"c.md"}

\* the task lines of the vault carry a block ID already, so that updateFile
\* queues nothing and does not wait for processQueue
TaskLineWithId == AppendBlockId(TaskLine, "aaaaaa")
LaterLineWithId == AppendBlockId(EditedLine, "bbbbbb")

\* a bullet that is no task
ItemLine == [text |-> "- shopping", ids |-> << >>]

\* the day of the clock in the runs of the cache and of the event manager
CacheDate == [year |-> 2024, month |-> 3, date |-> 1]

\* the positions of the list items of a file (fileCache.listItems)
ListItems(lines) ==
    SelectSeq([i \in 1 .. Len(lines) |-> i],
              LAMBDA i : HasNotificationMarker(lines[i]) \/ lines[i] = ItemLine)

\* the task object parsed from a line that has the bell and a date
ParseTask(line, path, i) ==
    [filePath |-> path, lineNumber |-> i, blockId |-> ExtractBlockId(line),
     title |-> "Pay rent",
     eventDate |-> IF line.text = TaskLine.text
                   THEN [year |-> 2024, month |-> 3, date |-> 1]
                   ELSE [year |-> 2024, month |-> 4, date |-> 1],
     repeatInterval |-> NoRepeat, reminderOffsets |-> << >>,
     originalText |-> line]

\* parseTasksFromMetadata from the k-th list item on
RECURSIVE parseTasksFromMetadata(_, _, _, _)
parseTasksFromMetadata(lines, listItems, path, k) ==
    IF k > Len(listItems) THEN << >>
    ELSE LET i == listItems[k]
             rest == parseTasksFromMetadata(lines, listItems, path, k + 1)
         IN  IF i > Len(lines) \/ lines[i] = EmptyLine THEN rest
             ELSE IF ~HasNotificationMarker(lines[i]) THEN rest
             ELSE << ParseTask(lines[i], path, i) >> \o rest

\* the Map of the cache is the sequence of its entries, in insertion order
CacheHas(c, path) == \E i \in 1 .. Len(c) : c[i].path = path

CacheDelete(c, path) == SelectSeq(c, LAMBDA e : e.path # path)

CacheSet(c, path, ts) ==
    IF CacheHas(c, path)
    THEN [i \in 1 .. Len(c) |->
             IF c[i].path = path THEN [path |-> path, tasks |-> ts] ELSE c[i]]
    ELSE Append(c, [path |-> path, tasks |-> ts])

RECURSIVE getAllTasks(_)
getAllTasks(c) ==
    IF c = << >> THEN << >> ELSE Head(c).tasks \o getAllTasks(Tail(c))

\* the list a notify block computes from a cache
ActiveOf(c) == getActiveNotifications(getAllTasks(c), referenceDate)

\* refresh() of every registered renderer, on the list of active
\* notifications
RefreshRenderers(activeNotifications) ==
    LET currentHash == hashNotifications(activeNotifications)
        renders(r) == r \in activeRenderers /\ currentHash # lastRenderHash[r]
    IN  /\ lastRenderHash' =
              [r \in Renderers |->
                  IF renders(r) THEN currentHash ELSE lastRenderHash[r]]
        /\ rendered' =
              [r \in Renderers |->
                  IF renders(r) THEN Rendered(activeNotifications)
                  ELSE rendered[r]]
        /\ rerendered' =
              [r \in Renderers |->
                  IF r \in activeRenderers THEN renders(r) ELSE rerendered[r]]
        /\ UNCHANGED activeRenderers

\* refreshAllNotifications on cache c
RefreshAllNotifications(c) == RefreshRenderers(ActiveOf(c))

\* an updateFile call slot that is free
FreeCall == CHOOSE c \in Calls : calls[c].pc = "idle"

\* updateFile(file) up to its await, on cache c: with no list item (or no
\* file) the entry is deleted and the call returns, else the call waits for
\* vault.read
UpdateFileStart(f, c) ==
    LET path == vaultFiles'[f].path
        listItems == IF vaultFiles'[f].deleted THEN << >>
                     ELSE ListItems(vaultLines'[path])
    IN  IF listItems = << >>
        THEN /\ cache' = CacheDelete(c, path)
             /\ calls' = calls
        ELSE /\ cache' = c
             /\ calls' = [calls EXCEPT ![FreeCall] =
                             [pc |-> "read", file |-> f,
                              listItems |-> listItems,
                              content |-> vaultLines'[path]]]

\* updateFile after vault.read has returned the content: of the file as it
\* is now, or, for a file deleted during the read, as it was
UpdateFileRead(u) ==
    /\ calls[u].pc = "read"
    /\ LET f == calls[u].file
           path == vaultFiles[f].path
           lines == IF vaultFiles[f].deleted THEN calls[u].content
                    ELSE vaultLines[path]
           ts == parseTasksFromMetadata(lines, calls[u].listItems, path, 1)
           c == IF Len(ts) > 0 THEN CacheSet(cache, path, ts)
                ELSE CacheDelete(cache, path)
       IN  /\ cache' = c
           /\ RefreshAllNotifications(c)
    /\ calls' = [calls EXCEPT ![u] = IdleCall]
    /\ UNCHANGED <<matcherVars, acknowledgements, blockIdVars, vaultFiles,
                   eventVars>>

\* vault.read of a file deleted during the read fails: updateFile throws
UpdateFileReadFails(u) ==
    /\ calls[u].pc = "read"
    /\ vaultFiles[calls[u].file].deleted
    /\ calls' = [calls EXCEPT ![u] = IdleCall]
    /\ UNCHANGED <<matcherVars, acknowledgements, rendererVars, blockIdVars,
                   vaultFiles, cache, eventVars>>

-----------------------------------------------------------------------------
(* Event manager (src/src/events.ts)                                       *)

\* the 500 ms of the debounce, in ticks of the clock
DebounceTicks == 2

TimerIds == 1 .. 3

NoBurst == [age |-> -1, calls |-> 0]

\* the lines an edit leaves in a file
EditedContents == {<< TaskLineWithId >>, << ItemLine >>, << PlainLine >>}

\* clearTimeout of the timer of a path, and its entry of debounceTimers
\* left as it is
ClearTimeout(timers, path) ==
    IF path \in DOMAIN debounceTimers
    THEN [id \in DOMAIN timers \ {debounceTimers[path]} |-> timers[id]]
    ELSE timers

MapDelete(map, key) == [k \in DOMAIN map \ {key} |-> map[k]]

MapSet(map, key, value) ==
    [k \in DOMAIN map \cup {key} |-> IF k = key THEN value ELSE map[k]]

\* a timer is due
TimerDue == \E id \in DOMAIN windowTimers : windowTimers[id].remaining = 0

\* the plugin after initialization, on a vault of two files with one
\* active task each
InitEvents ==
    /\ tasks = << >>
    /\ referenceDate = CacheDate
    /\ settings = [lookbackDays |-> DefaultLookbackDays]
    /\ active = << >>
    /\ pc = "start"
    /\ acknowledgements = << >>
    /\ InitRenderers
    /\ vaultLines = [p \in Files |-> << TaskLineWithId >>]
    /\ taskObjects = << >>
    /\ queue = << >>
    /\ runs = [p \in Runs |-> IdleRun]
    /\ handed = {}
    /\ vaultFiles = [f \in FileObjs |->
                        [path |-> IF f = "f1" THEN "a.md" ELSE "b.md",
                         deleted |-> FALSE]]
    /\ cache = << [path |-> "a.md",
                   tasks |-> << ParseTask(TaskLineWithId, "a.md", 1) >>],
                  [path |-> "b.md",
                   tasks |-> << ParseTask(TaskLineWithId, "b.md", 1) >>] >>
    /\ calls = [c \in Calls |-> IdleCall]
    /\ debounceTimers = << >>
    /\ windowTimers = << >>
    /\ burst = [p \in Paths |-> NoBurst]
    /\ removed = {}
    /\ initialize = Registered

\* mutant: the pending timer of the path is not cleared
FileChanged_NoClearTimeout(f, lines) ==
    /\ initialize.pc = "registered"
    /\ ~vaultFiles[f].deleted
    /\ ~TimerDue
    /\ LET path == vaultFiles[f].path
           timer == CHOOSE id \in TimerIds : id \notin DOMAIN windowTimers
       IN  /\ \E id \in TimerIds : id \notin DOMAIN windowTimers
           /\ vaultLines' = [vaultLines EXCEPT ![path] = lines]
           /\ windowTimers' =
                 MapSet(windowTimers, timer,
                        [file |-> f, path |-> path, remaining |-> DebounceTicks])
           /\ debounceTimers' = MapSet(debounceTimers, path, timer)
           /\ burst' = [burst EXCEPT ![path] =
                           IF @.age \in 0 .. DebounceTicks - 1
                           THEN [@ EXCEPT !.age = 0]
                           ELSE [age |-> 0, calls |-> 0]]
           /\ removed' = removed \ {path}
    /\ UNCHANGED <<matcherVars, acknowledgements, rendererVars, cacheVars,
                   taskObjects, queue, runs, handed, initialize>>

\* the file is edited and handleFileChanged runs on its "changed" event
FileChanged(f, lines) ==
    /\ initialize.pc = "registered"
    /\ ~vaultFiles[f].deleted
    /\ ~TimerDue
    /\ LET path == vaultFiles[f].path
           cleared == ClearTimeout(windowTimers, path)
           timer == CHOOSE id \in TimerIds : id \notin DOMAIN cleared
       IN  /\ vaultLines' = [vaultLines EXCEPT ![path] = lines]
           /\ windowTimers' =
                 MapSet(cleared, timer,
                        [file |-> f, path |-> path, remaining |-> DebounceTicks])
           /\ debounceTimers' = MapSet(debounceTimers, path, timer)
           /\ burst' = [burst EXCEPT ![path] =
                           IF @.age \in 0 .. DebounceTicks - 1
                           THEN [@ EXCEPT !.age = 0]
                           ELSE [age |-> 0, calls |-> 0]]
           /\ removed' = removed \ {path}
    /\ UNCHANGED <<matcherVars, acknowledgements, rendererVars, cacheVars,
                   taskObjects, queue, runs, handed, initialize>>

\* a tick of the clock passes: no timer is due, or it would run first
Tick ==
    /\ windowTimers # << >>
    /\ ~TimerDue
    /\ windowTimers' =
          [id \in DOMAIN windowTimers |->
              [windowTimers[id] EXCEPT !.remaining = @ - 1]]
    /\ burst' = [p \in Paths |->
                    IF burst[p].age \in 0 .. DebounceTicks - 1
                    THEN [burst[p] EXCEPT !.age = @ + 1] ELSE burst[p]]
    /\ UNCHANGED <<matcherVars, acknowledgements, rendererVars, blockIdVars,
                   cacheVars, debounceTimers, removed, initialize>>

\* the callback of a timer: updateFile is started and the entry of the
\* path is deleted from debounceTimers
TimerFires(id) ==
    /\ id \in DOMAIN windowTimers
    /\ windowTimers[id].remaining = 0
    /\ \E c \in Calls : calls[c].pc = "idle"
    /\ LET f == windowTimers[id].file
       IN  /\ UNCHANGED <<vaultFiles, vaultLines>>
           /\ UpdateFileStart(f, cache)
           /\ debounceTimers' = MapDelete(debounceTimers, vaultFiles[f].path)
    /\ windowTimers' = MapDelete(windowTimers, id)
    /\ burst' = [burst EXCEPT ![windowTimers[id].path].calls = @ + 1]
    /\ UNCHANGED <<matcherVars, acknowledgements, rendererVars, taskObjects,
                   queue, runs, handed, removed, initialize>>

\* the file is deleted and handleFileDeleted runs on its "delete" event
FileDeleted(f) ==
    /\ initialize.pc = "registered"
    /\ ~vaultFiles[f].deleted
    /\ LET path == vaultFiles[f].path
       IN  /\ vaultFiles' = [vaultFiles EXCEPT ![f].deleted = TRUE]
           /\ vaultLines' = MapDelete(vaultLines, path)
           /\ cache' = CacheDelete(cache, path)
           /\ windowTimers' = ClearTimeout(windowTimers, path)
           /\ debounceTimers' = MapDelete(debounceTimers, path)
           /\ burst' = [burst EXCEPT ![path] = NoBurst]
           /\ removed' = removed \cup {path}
    /\ UNCHANGED <<matcherVars, acknowledgements, rendererVars, calls,
                   taskObjects, queue, runs, handed, initialize>>

\* the file is renamed and handleFileRenamed runs on its "rename" event
FileRenamed(f, newPath) ==
    /\ initialize.pc = "registered"
    /\ ~vaultFiles[f].deleted
    /\ newPath \notin DOMAIN vaultLines
    /\ \E c \in Calls : calls[c].pc = "idle"
    /\ LET oldPath == vaultFiles[f].path
       IN  /\ vaultFiles' = [vaultFiles EXCEPT ![f].path = newPath]
           /\ vaultLines' =
                 MapSet(MapDelete(vaultLines, oldPath), newPath,
                        vaultLines[oldPath])
           /\ windowTimers' = ClearTimeout(windowTimers, oldPath)
           /\ debounceTimers' = MapDelete(debounceTimers, oldPath)
           /\ UpdateFileStart(f, CacheDelete(cache, oldPath))
           /\ burst' = [burst EXCEPT ![oldPath] = NoBurst]
           /\ removed' = (removed \cup {oldPath}) \ {newPath}
    /\ UNCHANGED <<matcherVars, acknowledgements, rendererVars, taskObjects,
                   queue, runs, handed, initialize>>

NextEvents ==
    \/ \E f \in FileObjs, lines \in EditedContents : FileChanged(f, lines)
    \/ Tick
    \/ \E id \in TimerIds : TimerFires(id)
    \/ \E u \in Calls : UpdateFileRead(u)
    \/ \E u \in Calls : UpdateFileReadFails(u)
    \/ \E f \in FileObjs : FileDeleted(f)
    \/ \E f \in FileObjs, newPath \in Paths : FileRenamed(f, newPath)

SpecEvents == InitEvents /\ [][NextEvents]_vars

-----------------------------------------------------------------------------
(* C22 *)

\* the timers set on the window for a path
TimersOf(path) ==
    {id \in DOMAIN windowTimers : windowTimers[id].path = path}

\* C22: every path has at most one timer on the window, the one recorded in
\* debounceTimers; a burst of change events of a path gets no updateFile
\* call before DebounceTicks have passed since its last event, and exactly
\* one once its timer has run.
C22_DebouncePerPath ==
    \A path \in Paths :
        /\ Cardinality(TimersOf(path)) <= 1
        /\ \A id \in TimersOf(path) :
              path \in DOMAIN debounceTimers /\ debounceTimers[path] = id
        /\ burst[path].calls <= 1
        /\ burst[path].calls = 1 =>
              burst[path].age = DebounceTicks /\ TimersOf(path) = {}
        /\ (burst[path].age = DebounceTicks /\ TimersOf(path) = {}) =>
              burst[path].calls = 1

\* a burst of two change events of a.md, a tick apart, has got its one
\* updateFile call, while a timer of b.md is still pending
C22_Witness ==
    /\ burst["a.md"] = [age |-> DebounceTicks, calls |-> 1]
    /\ TimersOf("a.md") = {}
    /\ TimersOf("b.md") # {}
    /\ \E u \in Calls : calls[u].pc = "read" /\ calls[u].file = "f1"

-----------------------------------------------------------------------------
(* C23 *)

\* C23: a path removed by a delete or a rename, and not named by a change
\* or rename event since, has no timer and no entry in the cache.
C23_NoStaleUpdate ==
    \A path \in removed :
        /\ path \notin DOMAIN debounceTimers
        /\ TimersOf(path) = {}
        /\ ~CacheHas(cache, path)

-----------------------------------------------------------------------------
(* Plugin lifecycle (src/src/main.ts)                                      *)

\* "Loading notifications..."
Loading == [state |-> "loading", items |-> << >>]

\* the lines of each file when the plugin loads
InitialContents == {<< TaskLineWithId >>, << LaterLineWithId >>, << PlainLine >>}

\* the lines an edit leaves in a file once the plugin has loaded
LaterContents == {<< TaskLineWithId >>, << PlainLine >>}

\* the plugin after onload, before the layout is ready
InitLifecycle ==
    /\ tasks = << >>
    /\ referenceDate = CacheDate
    /\ settings = [lookbackDays |-> DefaultLookbackDays]
    /\ active = << >>
    /\ pc = "start"
    /\ acknowledgements = << >>
    /\ InitRenderers
    /\ vaultLines \in [Files -> InitialContents]
    /\ taskObjects = << >>
    /\ queue = << >>
    /\ runs = [p \in Runs |-> IdleRun]
    /\ handed = {}
    /\ vaultFiles = [f \in FileObjs |->
                        [path |-> IF f = "f1" THEN "a.md" ELSE "b.md",
                         deleted |-> FALSE]]
    /\ cache = << >>
    /\ calls = [c \in Calls |-> IdleCall]
    /\ debounceTimers = << >>
    /\ windowTimers = << >>
    /\ burst = [p \in Paths |-> NoBurst]
    /\ removed = {}
    /\ initialize = Unloaded

\* render() on a list of notifications
Render(r, notifications) ==
    /\ rendered' = [rendered EXCEPT ![r] = Rendered(notifications)]
    /\ lastRenderHash' =
          [lastRenderHash EXCEPT ![r] = hashNotifications(notifications)]

\* onload of a notify block: it registers and renders
RendererOnload(r) ==
    /\ r \notin activeRenderers
    /\ activeRenderers' = activeRenderers \cup {r}
    /\ IF initialize.pc = "unloaded"
       THEN /\ rendered' = [rendered EXCEPT ![r] = Loading]
            /\ UNCHANGED lastRenderHash
       ELSE Render(r, ActiveOf(cache))
    /\ UNCHANGED <<matcherVars, acknowledgements, rerendered, blockIdVars,
                   cacheVars, eventVars>>

\* initializePlugin up to its first await: the cache is created and
\* initialize starts updateFile on the first file
InitializePlugin ==
    /\ initialize.pc = "unloaded"
    /\ UNCHANGED <<vaultFiles, vaultLines>>
    /\ UpdateFileStart("f1", << >>)
    /\ initialize' = [pc |-> "scan", rest |-> << "f2" >>]
    /\ UNCHANGED <<matcherVars, acknowledgements, rendererVars, taskObjects,
                   queue, runs, handed, debounceTimers, windowTimers, burst,
                   removed>>

\* the updateFile call that initialize awaits has returned: updateFile on
\* the next file or, after the last, processQueue on the empty queue and
\* the registration of the event listeners
InitializeNext ==
    /\ initialize.pc = "scan"
    /\ \A c \in Calls : calls[c].pc = "idle"
    /\ UNCHANGED <<vaultFiles, vaultLines>>
    /\ IF initialize.rest = << >>
       THEN /\ initialize' = Registered
            /\ UNCHANGED <<cache, calls>>
       ELSE /\ UpdateFileStart(Head(initialize.rest), cache)
            /\ initialize' = [initialize EXCEPT !.rest = Tail(@)]
    /\ UNCHANGED <<matcherVars, acknowledgements, rendererVars, taskObjects,
                   queue, runs, handed, debounceTimers, windowTimers, burst,
                   removed>>

NextLifecycle ==
    \/ \E r \in Renderers : RendererOnload(r)
    \/ InitializePlugin
    \/ InitializeNext
    \/ \E u \in Calls : UpdateFileRead(u)
    \/ \E f \in FileObjs, lines \in LaterContents : FileChanged(f, lines)
    \/ Tick
    \/ \E id \in TimerIds : TimerFires(id)
    \/ \E f \in FileObjs : FileDeleted(f)

SpecLifecycle == InitLifecycle /\ [][NextLifecycle]_vars

-----------------------------------------------------------------------------
(* C27 *)

\* C27: a step that changes the cached tasks leaves every registered
\* renderer refreshed: its lastRenderHash is the hash of the notifications
\* of the new cache.
C27_RefreshAfterCacheChange ==
    [][cache' # cache =>
          \A r \in activeRenderers :
             lastRenderHash'[r] = hashNotifications(ActiveOf(cache'))]_vars

-----------------------------------------------------------------------------
(* C30 *)

\* C30: once initializePlugin has run to its end, no registered notify
\* block shows "Loading notifications...".
C30_LeavesLoadingState ==
    initialize.pc = "registered" =>
        \A r \in activeRenderers : rendered[r].state # "loading"

====
